---------------------------- MODULE Spec2Model ----------------------------
(***************************************************************************)
(* A state-machine model of the flash synchronisation pipeline of          *)
(* invaders.producer: StoreFlashesCron.executeTask and processFlashes      *)
(* (src/src/util/cron-jobs/store-flashes.ts) together with the             *)
(* collaborators they call: the disk-backed retry ledger, the store        *)
(* adapter, the allow-list and the queue publisher.                        *)
(*                                                                         *)
(* One tick of the cron job is a sequence of steps, one per await of the   *)
(* source; pc names the await the tick is suspended at.  A flash record    *)
(* is represented by its flash_id; its player is Player(id).               *)
(***************************************************************************)
EXTENDS Integers, Sequences, FiniteSets, TLC

(***************************************************************************)
(* Bounds of the model.                                                    *)
(***************************************************************************)
\* The ledger file holds at most this many entries: a failure that would
\* append one more is not admitted.
MaxLedger == 2
\* consecutiveNoChanges is not counted beyond this value.
MaxUnchanged == 2
\* The same for the runs that follow the backoff alone (BackoffSpec).
MaxBackoffCounter == 12
\* publishCast is not called more than this many times for one flash.
MaxCasts == 2
\* The messageCounter does not count beyond this many messages.
MaxMessages == 2
\* ConfigManager does not load the configuration more than this many times.
MaxLoads == 2

(***************************************************************************)
(* Program constants.                                                      *)
(***************************************************************************)
OffPeakSkipTenths == 5       \* Math.random() < 0.5
BackoffCap == 10             \* Math.min(consecutiveNoChanges, 10)
PeakStartHour == 6           \* cetHour >= 6
PeakEndHour == 23            \* cetHour < 23
DefaultBatchSize == 50       \* RABBITMQ_BATCH_SIZE || "50"
DefaultConcurrency == 5      \* RABBITMQ_CONCURRENCY || "5"

(***************************************************************************)
(* The data the model ranges over.                                         *)
(***************************************************************************)
Ids == {1, 2, 3}
Hours == 0 .. 23
\* Math.random(), in tenths: the draw d stands for a value in [d/10, (d+1)/10).
Draws == 0 .. 9

Player(id) == CASE id = 1 -> "Alice" [] id = 2 -> "Bob" [] OTHER -> "carol"

\* String.prototype.toLowerCase on the names that occur.
ToLowerCase(s) ==
    CASE s \in {"Alice", "ALICE", "alice"} -> "alice"
      [] s \in {"Bob", "BOB", "bob"} -> "bob"
      [] OTHER -> s

\* The usernames FlashcastrUsersDb.getMany can return.
AllowLists == {{}, {"ALICE"}}

\* ipfs_cid of a stored row: null, blank, or a content id.
NULL == "<null>"
Cids == {NULL, " ", "QmA"}
NoRow == "<no row>"

\* String.prototype.trim on the ipfs_cid values that occur.
Trim(s) == IF s = " " THEN "" ELSE s

FlashCounts == {"100", "101"}
NoFlashes == [with_paris |-> <<>>, without_paris |-> <<>>, flash_count |-> "<none>"]
\* What getFlashes can resolve to: each subset is empty or the current page.
FeedResponses ==
    { [with_paris |-> w, without_paris |-> wo, flash_count |-> c] :
        w \in {<<>>, <<1, 2>>}, wo \in {<<>>, <<3>>}, c \in FlashCounts }

\* The StoreFlashesCron objects constructed in the process.
Instances == {"A", "B"}

RetryContext == "retry-failed-flashes"
NewContext == "new-flashes"

Range(s) == { s[k] : k \in 1 .. Len(s) }
Min(a, b) == IF a < b THEN a ELSE b

RECURSIVE SelectIds(_, _)
\* Array.prototype.filter with membership in a set as the predicate.
SelectIds(s, keep) ==
    IF s = <<>> THEN <<>>
    ELSE IF Head(s) \in keep
         THEN <<Head(s)>> \o SelectIds(Tail(s), keep)
         ELSE SelectIds(Tail(s), keep)

RECURSIVE SortedSeq(_)
\* The elements of a set of integers in ascending order.
SortedSeq(S) ==
    IF S = {} THEN <<>>
    ELSE LET m == CHOOSE x \in S : \A y \in S : x <= y
         IN <<m>> \o SortedSeq(S \ {m})

VARIABLES
    pc,                    \* the await executeTask/processFlashes is at
    lastFlashCount,        \* StoreFlashesCron.lastFlashCount
    consecutiveNoChanges,  \* StoreFlashesCron.consecutiveNoChanges
    ledger,                \* the entries of the DiskPersistence file
    store,                 \* the flashes table: id -> ipfs_cid, or NoRow
    flashcastrUsers,       \* the usernames of the flashcastr users table
    flashes,               \* executeTask's local: the fetched response
    pf,                    \* the locals of the running processFlashes call
    obs,                   \* this tick: the instance task() was called on
                           \* (kept until the flash count is compared, the
                           \* last use of the statics) and what the
                           \* collaborators saw
    flashcastrFlashes,     \* the flashcastr flashes table: id -> cast_hash
    publishCastCalls,      \* NeynarUsers.publishCast: calls made, per flash
    castHashes,            \* NeynarUsers.publishCast: hashes returned, per flash
    sync,                  \* the locals of the running FlashSyncCron.executeTask
    messageCounter,        \* rabbitmq/index.ts: the messageCounter object
    wc,                    \* the locals of the running withChannel call
    processEnv,            \* process.env, the settings ConfigManager reads
    config,                \* ConfigManager._config: null or the object
    objects,               \* the nested objects an AppConfig object refers to
    json                   \* what the last call of toJSON returned

\* The variables of FlashSyncCron, of RabbitMQBase and of ConfigManager.
syncVars == <<flashcastrFlashes, publishCastCalls, castHashes, sync>>
mqVars == <<messageCounter, wc>>
configVars == <<processEnv, config, objects, json>>
otherVars == <<syncVars, mqVars, configVars>>

\* The variables of StoreFlashesCron and its collaborators.
cronVars == <<pc, lastFlashCount, consecutiveNoChanges, ledger, store,
              flashcastrUsers, flashes, pf, obs>>

vars == <<pc, lastFlashCount, consecutiveNoChanges, ledger, store,
          flashcastrUsers, flashes, pf, obs, syncVars, mqVars, configVars>>

NoFrame ==
    [context |-> "none", flattened |-> <<>>, hasOriginal |-> FALSE,
     flashesToProcess |-> <<>>, existingFlashes |-> <<>>,
     writtenDocuments |-> <<>>, flashesToPublish |-> <<>>,
     batchSize |-> 0, concurrencyLimit |-> 0, i |-> 0, j |-> 0,
     failedPublishes |-> <<>>, publishCount |-> 0, result |-> "none"]

NoPassObs ==
    [ledgerAtStart |-> <<>>, input |-> <<>>,
     lookedUp |-> FALSE, lookupArg |-> <<>>,
     written |-> FALSE, writeArg |-> <<>>,
     storeAtWrite |-> [id \in Ids |-> NoRow],
     publishLog |-> <<>>]

NoObs ==
    [instance |-> "none", utcHour |-> -1, drained |-> FALSE,
     replay |-> "none", backoff |-> "none", draw |-> -1,
     fetched |-> NoFlashes, pass |-> NoPassObs]

(***************************************************************************)
(* The other components of the repository: FlashSyncCron.executeTask       *)
(* (src/src/util/cron-jobs/flash-sync.ts), RabbitMQBase.withChannel        *)
(* (src/src/util/rabbitmq/index.ts) and ConfigManager                      *)
(* (src/src/util/config/index.ts).  Their state at the start.              *)
(***************************************************************************)
\* The users table in the runs of FlashSyncCron, and the users whose row
\* has auto_cast set.
SyncUsers == {{"ALICE"}, {"ALICE", "bob"}, {"ALICE", "bob", "carol"}}
AutoCastUsers == {"ALICE", "bob"}

\* The flashes table in the runs of FlashSyncCron: every flash stored, the
\* ipfs_cid of flash 2 populated or not.
SyncStores ==
    { [id \in Ids |-> IF id = 2 THEN cid ELSE "QmA"] : cid \in {NULL, "QmA"} }

\* What publishCast resolves to.
CastHash == "0xcast"

NoSync ==
    [pc |-> "Idle", newFlashes |-> <<>>, profiles |-> {}, k |-> 0,
     docs |-> <<>>]

SyncIdle ==
    /\ flashcastrFlashes = [id \in Ids |-> NoRow]
    /\ publishCastCalls = [id \in Ids |-> 0]
    /\ castHashes = [id \in Ids |-> 0]
    /\ sync = NoSync

\* The locals of withChannel when no call is running.
NoCall ==
    [pc |-> "Idle", payload |-> 0, connection |-> "undefined",
     channel |-> "undefined", closeCalls |-> <<>>,
     settled |-> [kind |-> "none", of |-> "none"],
     outcome |-> [kind |-> "none", of |-> "none"]]

RabbitIdle ==
    /\ messageCounter = [published |-> 0, failed |-> 0]
    /\ wc = NoCall

\* A URL string, as the parts new URL() reads from it; username and
\* password are "" when the string has none.
Url(protocol, username, password, host, pathname) ==
    [protocol |-> protocol, username |-> username, password |-> password,
     host |-> host, pathname |-> pathname]

\* The values of the required settings in process.env.
DatabaseUrls ==
    { Url("postgres:", "user", "pw", "db", "/flashes"),
      Url("postgres:", "", "", "db", "/flashes") }
RabbitUrls ==
    { Url("amqp:", "guest", "guest", "mq", ""),
      Url("amqp:", "", "", "mq", "") }
EncryptionKeys == {"0123456789abcdef", "fedcba9876543210"}
NodeEnvs == {"development", "test", "production"}

ProcessEnvs ==
    [DATABASE_URL : DatabaseUrls, RABBITMQ_URL : RabbitUrls,
     SIGNER_ENCRYPTION_KEY : EncryptionKeys, NODE_ENV : NodeEnvs]

\* _config before the first load (null, line 72), and the value of json
\* before toJSON has returned.
NoConfig == [nested |-> 0, env |-> "<none>"]

ConfigUnloaded ==
    /\ processEnv = [DATABASE_URL |-> Url("postgres:", "user", "pw", "db", "/flashes"),
                     RABBITMQ_URL |-> Url("amqp:", "guest", "guest", "mq", ""),
                     SIGNER_ENCRYPTION_KEY |-> "0123456789abcdef",
                     NODE_ENV |-> "development"]
    /\ config = NoConfig
    /\ objects = <<>>
    /\ json = NoConfig

Init ==
    /\ pc = "Idle"
    /\ lastFlashCount = NULL
    /\ consecutiveNoChanges = 0
    /\ ledger = <<>>
    /\ store = [id \in Ids |-> NoRow]
    /\ flashcastrUsers \in AllowLists
    /\ flashes = NoFlashes
    /\ pf = NoFrame
    /\ obs = NoObs
    /\ SyncIdle
    /\ RabbitIdle
    /\ ConfigUnloaded


(***************************************************************************)
(* The collaborators whose source is not part of the repository snapshot,  *)
(* modelled from their contract: DiskPersistence (the retry ledger) and    *)
(* PostgresFlashesDb (the store adapter).                                  *)
(***************************************************************************)
\* retryFailedFlashes returning the flashes of the newest entry alone.
RetryFailedFlashesNewestOnly(l) ==
    IF l = <<>> THEN <<>> ELSE l[Len(l)].flashes

RECURSIVE RetryFailedFlashes(_)
\* DiskPersistence.retryFailedFlashes: every flash of every entry, in file
\* order; nothing is removed.
RetryFailedFlashes(l) ==
    IF l = <<>> THEN <<>> ELSE Head(l).flashes \o RetryFailedFlashes(Tail(l))

\* DiskPersistence.persistFailedFlashes(flashes, reason): appends one entry.
PersistFailedFlashes(l, fl, kind, context) ==
    Append(l, [flashes |-> fl, reason |-> [kind |-> kind, context |-> context]])

\* DiskPersistence.clearFailedFlashes: empties the file.
ClearFailedFlashes(l) == <<>>

\* PostgresFlashesDb.getByIds: the stored rows with one of the ids.
GetByIds(st, flashIds) ==
    LET found == { id \in Range(flashIds) : st[id] # NoRow }
        ids == SortedSeq(found)
    IN [k \in 1 .. Len(ids) |-> [flash_id |-> ids[k], ipfs_cid |-> st[ids[k]]]]

\* PostgresFlashesDb.writeMany, the table afterwards: insert, do nothing on
\* conflict; a new row has no ipfs_cid.
WriteManyStore(st, fl) ==
    [id \in Ids |-> IF id \in Range(fl) /\ st[id] = NoRow THEN NULL ELSE st[id]]

\* PostgresFlashesDb.writeMany, the documents returned: the rows inserted,
\* flash_id as the driver returns a bigint column, a decimal string.
WriteManyDocuments(st, fl) ==
    LET ins == SelectIds(fl, { id \in Ids : st[id] = NoRow })
    IN [k \in 1 .. Len(ins) |-> [flash_id |-> ToString(ins[k])]]

\* Number(doc.flash_id) on the decimal strings that occur.
Number(s) == CHOOSE n \in Ids : ToString(n) = s

\* parseInt(process.env.X || dflt) on the settings that occur; "" is unset.
ParseIntOr(env, dflt) ==
    IF env = "" THEN dflt
    ELSE CHOOSE n \in 0 .. 99 : ToString(n) = env

EnvBatchSizes == {"", "1"}
EnvConcurrencies == {"", "1"}

(***************************************************************************)
(* StoreFlashesCron: the pure parts of executeTask and processFlashes.     *)
(***************************************************************************)
\* isPeakFlashTime on the UTC hour itself, without the offset of one hour.
isPeakFlashTimeUtc(utcHour) ==
    utcHour >= PeakStartHour /\ utcHour < PeakEndHour

isPeakFlashTime(utcHour) ==
    LET cetHour == (utcHour + 1) % 24
    IN cetHour >= PeakStartHour /\ cetHour < PeakEndHour

\* const shouldSkip = Math.random() < 0.5
shouldSkip(draw) == draw < OffPeakSkipTenths

\* backoffThreshold without the additive growth: the base rate at every
\* value of the counter.
backoffThresholdFlat(n) == Min(n, 1)

\* Math.min(consecutiveNoChanges, 10)
backoffThreshold(n) == Min(n, BackoffCap)

\* Math.random() < backoffThreshold * 0.1
shouldSkipDueToBackoff(draw, n) == draw < backoffThreshold(n)

\* The response passes the check of lines 68-75.
HasFlashes(f) == f # NoFlashes /\ Len(f.with_paris) # 0 /\ Len(f.without_paris) # 0

flashcastrUsernames(users) == { ToLowerCase(u) : u \in users }

\* withParisToProcess without toLowerCase on flash.player.
withParisToProcessCaseSensitive(with, usernames) ==
    SelectIds(with, { id \in Ids : Player(id) \in usernames })

withParisToProcess(with, usernames) ==
    SelectIds(with, { id \in Ids : ToLowerCase(Player(id)) \in usernames })

\* Lines 143-169: what is written and published.
flashesToProcess(hasOriginal, flat, original, usernames) ==
    IF ~hasOriginal THEN flat
    ELSE original.without_paris \o withParisToProcess(original.with_paris, usernames)

\* afterFlattenedCleared with flashesToProcess a copy of flattened: line 172
\* leaves the flashes of a retry in place.
afterFlattenedKept(hasOriginal, toProcess) == toProcess

\* Line 172, flattened.length = 0: in a retry flashesToProcess is the same
\* array as flattened, and is emptied with it.
afterFlattenedCleared(hasOriginal, toProcess) ==
    IF ~hasOriginal THEN <<>> ELSE toProcess

\* Lines 216-220.
newlyWrittenFlashes(toProcess, docs) ==
    SelectIds(toProcess, { Number(docs[k].flash_id) : k \in 1 .. Len(docs) })

\* withoutIpfs with the trim left out.
withoutIpfsUntrimmed(cid) == cid = NULL \/ cid = ""

\* !flash.ipfs_cid || flash.ipfs_cid.trim() === ""
withoutIpfs(cid) == cid = NULL \/ cid = "" \/ Trim(cid) = ""

\* Lines 222-224, as flash ids.
existingFlashesWithoutIpfs(rows) ==
    LET keep == { k \in 1 .. Len(rows) : withoutIpfs(rows[k].ipfs_cid) }
    IN SelectIds([k \in 1 .. Len(rows) |-> rows[k].flash_id],
                 { rows[k].flash_id : k \in keep })

\* flashesToPublish without the newly written flashes.
flashesToPublishExistingOnly(toProcess, docs, rows) ==
    existingFlashesWithoutIpfs(rows)

\* Lines 226-229.
flashesToPublish(toProcess, docs, rows) ==
    newlyWrittenFlashes(toProcess, docs) \o existingFlashesWithoutIpfs(rows)

\* concurrentBatch as batch.slice(j): the rest of the batch is dispatched at
\* once, whatever the concurrency limit.
concurrentBatchUnlimited(list, i, j, batchSize, concurrencyLimit) ==
    SubSeq(list, i + j + 1, Min(i + batchSize, Len(list)))

\* flashesToPublish.slice(i, i + batchSize).slice(j, j + concurrencyLimit),
\* with 0-based i and j.
concurrentBatch(list, i, j, batchSize, concurrencyLimit) ==
    LET last == Min(Min(i + batchSize, Len(list)), i + j + concurrencyLimit)
    IN SubSeq(list, i + j + 1, last)

\* nextGroup with the outer loop stepping i by the concurrency limit.
nextGroupStepsByLimit(len, i, j, batchSize, concurrencyLimit) ==
    LET batchLength == Min(batchSize, len - i)
    IN IF j + concurrencyLimit < batchLength
       THEN [i |-> i, j |-> j + concurrencyLimit]
       ELSE [i |-> i + concurrencyLimit, j |-> 0]

\* The loop counters after the group at (i, j): the inner loop steps j, the
\* outer loop steps i when the batch is exhausted.
nextGroup(len, i, j, batchSize, concurrencyLimit) ==
    LET batchLength == Min(batchSize, len - i)
    IN IF j + concurrencyLimit < batchLength
       THEN [i |-> i, j |-> j + concurrencyLimit]
       ELSE [i |-> i + batchSize, j |-> 0]

NewFrame(context, flat, hasOriginal) ==
    [NoFrame EXCEPT !.context = context, !.flattened = flat,
                    !.hasOriginal = hasOriginal, !.result = "running"]

NewPassObs(l, flat) ==
    [NoPassObs EXCEPT !.ledgerAtStart = l, !.input = flat]

\* A failure that appends to the ledger is admitted while the file has room.
LedgerHasRoom == Len(ledger) < MaxLedger

(***************************************************************************)
(* executeTask, lines 30-57: the off-peak decision and the ledger replay.  *)
(***************************************************************************)
\* Lines 26-41: task() is called on an instance; outside the peak hours the
\* draw may end the run at once.
SkipOffPeak ==
    /\ pc = "Idle"
    /\ { <<utcHour, draw>> \in Hours \X Draws :
            ~isPeakFlashTime(utcHour) /\ shouldSkip(draw) } # {}
    /\ pc' = "SkippedOffPeak"
    /\ \E inst \in Instances : obs' = [obs EXCEPT !.instance = inst]
    /\ UNCHANGED <<otherVars, lastFlashCount, consecutiveNoChanges, ledger, store,
                   flashcastrUsers, flashes, pf>>

\* StartRun with the replay left out: the run goes from the off-peak
\* decision straight to the fetch.
StartRunWithoutReplay ==
    /\ pc = "Idle"
    /\ { <<utcHour, draw>> \in Hours \X Draws :
            isPeakFlashTime(utcHour) \/ ~shouldSkip(draw) } # {}
    /\ pc' = "Fetching"
    /\ \E inst \in Instances : obs' = [obs EXCEPT !.instance = inst]
    /\ UNCHANGED <<otherVars, lastFlashCount, consecutiveNoChanges, ledger, store,
                   flashcastrUsers, flashes, pf>>

\* Lines 26-44: task() is called on an instance and the run goes on.
StartRun ==
    /\ pc = "Idle"
    /\ { <<utcHour, draw>> \in Hours \X Draws :
            isPeakFlashTime(utcHour) \/ ~shouldSkip(draw) } # {}
    /\ pc' = "RetryingLedger"
    /\ \E inst \in Instances : obs' = [obs EXCEPT !.instance = inst]
    /\ UNCHANGED <<otherVars, lastFlashCount, consecutiveNoChanges, ledger, store,
                   flashcastrUsers, flashes, pf>>

\* Lines 47-49: the ledger holds nothing to retry.
RetryNothing ==
    /\ pc = "RetryingLedger"
    /\ Len(RetryFailedFlashes(ledger)) = 0
    /\ pc' = "Fetching"
    /\ obs' = [obs EXCEPT !.drained = TRUE, !.replay = "empty"]
    /\ UNCHANGED <<otherVars, lastFlashCount, consecutiveNoChanges, ledger, store,
                   flashcastrUsers, flashes, pf>>

\* Lines 47-56: processFlashes is called with what the ledger returned.
RetryPreviouslyFailed ==
    /\ pc = "RetryingLedger"
    /\ LET previouslyFailedFlashes == RetryFailedFlashes(ledger)
       IN /\ Len(previouslyFailedFlashes) > 0
          /\ pf' = NewFrame(RetryContext, previouslyFailedFlashes, FALSE)
          /\ obs' = [obs EXCEPT !.drained = TRUE, !.replay = "started",
                                !.pass = NewPassObs(ledger, previouslyFailedFlashes)]
    /\ pc' = "PF_GetUsers"
    /\ UNCHANGED <<otherVars, lastFlashCount, consecutiveNoChanges, ledger, store,
                   flashcastrUsers, flashes>>

(***************************************************************************)
(* executeTask, lines 59-120: the fetch and the flash-count comparison.    *)
(***************************************************************************)
\* Lines 61-66: getFlashes rejects.
GetFlashesThrows ==
    /\ pc = "Fetching"
    /\ pc' = "Aborted"
    /\ UNCHANGED <<otherVars, lastFlashCount, consecutiveNoChanges, ledger, store,
                   flashcastrUsers, flashes, pf, obs>>

\* GetFlashesEmpty with the comparison of lines 82-113 moved before the
\* check of lines 68-75: the flash count of the rejected response is kept.
GetFlashesEmptyRecordsCount ==
    /\ pc = "Fetching"
    /\ \E f \in FeedResponses \cup {NoFlashes} :
          /\ ~HasFlashes(f)
          /\ flashes' = f
          /\ lastFlashCount' = IF f = NoFlashes THEN lastFlashCount
                               ELSE f.flash_count
    /\ pc' = "Aborted"
    /\ UNCHANGED <<otherVars, consecutiveNoChanges, ledger, store,
                   flashcastrUsers, pf, obs>>

\* Lines 68-75: no response, or a response with an empty subset.
GetFlashesEmpty ==
    /\ pc = "Fetching"
    /\ \E f \in FeedResponses \cup {NoFlashes} :
          /\ ~HasFlashes(f)
          /\ flashes' = f
    /\ pc' = "Aborted"
    /\ UNCHANGED <<otherVars, lastFlashCount, consecutiveNoChanges, ledger, store,
                   flashcastrUsers, pf, obs>>

\* Lines 84-100: the flash count is the last one seen and the draw selects
\* the backoff skip.
BackoffSkip ==
    /\ pc = "Fetching"
    /\ consecutiveNoChanges < MaxUnchanged
    /\ \E f \in FeedResponses, draw \in Draws :
          /\ HasFlashes(f)
          /\ lastFlashCount = f.flash_count
          /\ shouldSkipDueToBackoff(draw, consecutiveNoChanges + 1)
          /\ flashes' = f
          /\ obs' = [obs EXCEPT !.instance = "none", !.fetched = f, !.backoff = "skip"]
    /\ consecutiveNoChanges' = consecutiveNoChanges + 1
    /\ pc' = "SkippedBackoff"
    /\ UNCHANGED <<otherVars, lastFlashCount, ledger, store, flashcastrUsers, pf>>

\* Lines 84-94 and 102-105: the flash count is the last one seen and the
\* draw does not select the backoff skip; the run returns all the same.
NoNewFlashes ==
    /\ pc = "Fetching"
    /\ consecutiveNoChanges < MaxUnchanged
    /\ \E f \in FeedResponses, draw \in Draws :
          /\ HasFlashes(f)
          /\ lastFlashCount = f.flash_count
          /\ ~shouldSkipDueToBackoff(draw, consecutiveNoChanges + 1)
          /\ flashes' = f
          /\ obs' = [obs EXCEPT !.instance = "none", !.fetched = f, !.backoff = "noskip"]
    /\ consecutiveNoChanges' = consecutiveNoChanges + 1
    /\ pc' = "SkippedUnchanged"
    /\ UNCHANGED <<otherVars, lastFlashCount, ledger, store, flashcastrUsers, pf>>

\* FlashCountChanged with the counter left as it is.
FlashCountChangedNoReset ==
    /\ pc = "Fetching"
    /\ \E f \in FeedResponses :
          /\ HasFlashes(f)
          /\ lastFlashCount # f.flash_count
          /\ flashes' = f
          /\ lastFlashCount' = f.flash_count
          /\ LET flattened == f.with_paris \o f.without_paris
             IN /\ pf' = NewFrame(NewContext, flattened, TRUE)
                /\ obs' = [obs EXCEPT !.instance = "none", !.fetched = f,
                                      !.pass = NewPassObs(ledger, flattened)]
    /\ pc' = "PF_GetUsers"
    /\ UNCHANGED <<otherVars, consecutiveNoChanges, ledger, store, flashcastrUsers>>

\* FlashCountChanged with lastFlashCount left to be written after the
\* processing.
FlashCountChangedDeferred ==
    /\ pc = "Fetching"
    /\ \E f \in FeedResponses :
          /\ HasFlashes(f)
          /\ lastFlashCount # f.flash_count
          /\ flashes' = f
          /\ LET flattened == f.with_paris \o f.without_paris
             IN /\ pf' = NewFrame(NewContext, flattened, TRUE)
                /\ obs' = [obs EXCEPT !.instance = "none", !.fetched = f,
                                      !.pass = NewPassObs(ledger, flattened)]
    /\ consecutiveNoChanges' = 0
    /\ pc' = "PF_GetUsers"
    /\ UNCHANGED <<otherVars, lastFlashCount, ledger, store, flashcastrUsers>>

\* Lines 108-120: the flash count changed; the statics are set and
\* processFlashes is called with the fetched flashes.
FlashCountChanged ==
    /\ pc = "Fetching"
    /\ \E f \in FeedResponses :
          /\ HasFlashes(f)
          /\ lastFlashCount # f.flash_count
          /\ flashes' = f
          /\ lastFlashCount' = f.flash_count
          /\ LET flattened == f.with_paris \o f.without_paris
             IN /\ pf' = NewFrame(NewContext, flattened, TRUE)
                /\ obs' = [obs EXCEPT !.instance = "none", !.fetched = f,
                                      !.pass = NewPassObs(ledger, flattened)]
    /\ consecutiveNoChanges' = 0
    /\ pc' = "PF_GetUsers"
    /\ UNCHANGED <<otherVars, ledger, store, flashcastrUsers>>

(***************************************************************************)
(* processFlashes, lines 127-329.                                          *)
(***************************************************************************)
\* Lines 317-328, the catch block: whatever flattened holds by now is
\* persisted, and processFlashes returns normally.
CatchUnexpected ==
    /\ ledger' = PersistFailedFlashes(ledger, pf.flattened, "unexpected-error",
                                      pf.context)
    /\ pf' = [pf EXCEPT !.result = "unexpected-error"]
    /\ pc' = "PF_Return"

\* Lines 134-176: the allow-list is read and the flashes to process chosen.
GetUsers ==
    /\ pc = "PF_GetUsers"
    /\ LET usernames == flashcastrUsernames(flashcastrUsers)
           toProcess == flashesToProcess(pf.hasOriginal, pf.flattened, flashes,
                                         usernames)
       IN pf' = [pf EXCEPT
                   !.flashesToProcess = afterFlattenedCleared(pf.hasOriginal, toProcess),
                   !.flattened = <<>>]
    \* Lines 167-168: the arrays of the fetched response are dropped.
    /\ flashes' = IF pf.hasOriginal
                  THEN [flashes EXCEPT !.with_paris = <<>>, !.without_paris = <<>>]
                  ELSE flashes
    /\ pc' = "PF_GetByIds"
    /\ UNCHANGED <<otherVars, lastFlashCount, consecutiveNoChanges, ledger, store,
                   flashcastrUsers, obs>>

\* Line 134: FlashcastrUsersDb.getMany rejects.
GetUsersThrows ==
    /\ pc = "PF_GetUsers"
    /\ LedgerHasRoom
    /\ CatchUnexpected
    /\ UNCHANGED <<otherVars, lastFlashCount, consecutiveNoChanges, store,
                   flashcastrUsers, flashes, obs>>

\* Lines 179-187: the rows already stored are looked up.
GetFlashesByIds ==
    /\ pc = "PF_GetByIds"
    /\ LET flashIds == pf.flashesToProcess
       IN /\ pf' = [pf EXCEPT !.existingFlashes = GetByIds(store, flashIds)]
          /\ obs' = [obs EXCEPT !.pass.lookedUp = TRUE,
                                !.pass.lookupArg = flashIds]
    /\ pc' = "PF_WriteMany"
    /\ UNCHANGED <<otherVars, lastFlashCount, consecutiveNoChanges, ledger, store,
                   flashcastrUsers, flashes>>

\* Line 181: getByIds rejects.
GetFlashesByIdsThrows ==
    /\ pc = "PF_GetByIds"
    /\ LedgerHasRoom
    /\ CatchUnexpected
    /\ UNCHANGED <<otherVars, lastFlashCount, consecutiveNoChanges, store,
                   flashcastrUsers, flashes, obs>>

\* Lines 190-198 and 215-236: the write succeeds and the flashes to publish
\* are chosen.
WriteMany ==
    /\ pc = "PF_WriteMany"
    /\ LET docs == WriteManyDocuments(store, pf.flashesToProcess)
           toPublish == flashesToPublish(pf.flashesToProcess, docs,
                                         pf.existingFlashes)
       IN /\ pf' = [pf EXCEPT
                      !.writtenDocuments = docs,
                      !.flashesToPublish = toPublish,
                      !.result = IF Len(toPublish) = 0 THEN "nothing-to-publish"
                                 ELSE @]
          /\ pc' = IF Len(toPublish) = 0 THEN "PF_Return" ELSE "PF_NewRabbit"
    /\ store' = WriteManyStore(store, pf.flashesToProcess)
    /\ obs' = [obs EXCEPT !.pass.written = TRUE,
                          !.pass.writeArg = pf.flashesToProcess,
                          !.pass.storeAtWrite = store]
    /\ UNCHANGED <<otherVars, lastFlashCount, consecutiveNoChanges, ledger,
                   flashcastrUsers, flashes>>

\* WriteManyThrows persisting flattened, as the catch block does, in place
\* of the flashes to process.
WriteManyThrowsPersistsFlattened ==
    /\ pc = "PF_WriteMany"
    /\ LedgerHasRoom
    /\ ledger' = PersistFailedFlashes(ledger, pf.flattened,
                                      "database-write-failure", pf.context)
    /\ pf' = [pf EXCEPT !.result = "database-write-failure"]
    /\ obs' = [obs EXCEPT !.pass.written = TRUE,
                          !.pass.writeArg = pf.flashesToProcess,
                          !.pass.storeAtWrite = store]
    /\ pc' = "PF_Return"
    /\ UNCHANGED <<otherVars, lastFlashCount, consecutiveNoChanges, store,
                   flashcastrUsers, flashes>>

\* WriteManyThrows without the return of line 212: the flashes are persisted
\* and the run goes on to publish with no document written.
WriteManyThrowsGoesOn ==
    /\ pc = "PF_WriteMany"
    /\ LedgerHasRoom
    /\ ledger' = PersistFailedFlashes(ledger, pf.flashesToProcess,
                                      "database-write-failure", pf.context)
    /\ LET toPublish == flashesToPublish(pf.flashesToProcess, <<>>,
                                         pf.existingFlashes)
       IN /\ pf' = [pf EXCEPT
                      !.flashesToPublish = toPublish,
                      !.result = IF Len(toPublish) = 0 THEN "nothing-to-publish"
                                 ELSE @]
          /\ pc' = IF Len(toPublish) = 0 THEN "PF_Return" ELSE "PF_NewRabbit"
    /\ obs' = [obs EXCEPT !.pass.written = TRUE,
                          !.pass.writeArg = pf.flashesToProcess,
                          !.pass.storeAtWrite = store]
    /\ UNCHANGED <<otherVars, lastFlashCount, consecutiveNoChanges, store,
                   flashcastrUsers, flashes>>

\* Lines 199-213: the write rejects; the flashes to process are persisted
\* and nothing is published.
WriteManyThrows ==
    /\ pc = "PF_WriteMany"
    /\ LedgerHasRoom
    /\ ledger' = PersistFailedFlashes(ledger, pf.flashesToProcess,
                                      "database-write-failure", pf.context)
    /\ pf' = [pf EXCEPT !.result = "database-write-failure"]
    /\ obs' = [obs EXCEPT !.pass.written = TRUE,
                          !.pass.writeArg = pf.flashesToProcess,
                          !.pass.storeAtWrite = store]
    /\ pc' = "PF_Return"
    /\ UNCHANGED <<otherVars, lastFlashCount, consecutiveNoChanges, store,
                   flashcastrUsers, flashes>>

\* Lines 239-251: the publisher is constructed and the settings are read.
NewRabbitImagePush ==
    /\ pc = "PF_NewRabbit"
    /\ \E envBatch \in EnvBatchSizes, envConc \in EnvConcurrencies :
          pf' = [pf EXCEPT
                   !.batchSize = ParseIntOr(envBatch, DefaultBatchSize),
                   !.concurrencyLimit = ParseIntOr(envConc, DefaultConcurrency)]
    /\ pc' = "PF_PublishGroup"
    /\ UNCHANGED <<otherVars, lastFlashCount, consecutiveNoChanges, ledger, store,
                   flashcastrUsers, flashes, obs>>

\* Line 239: the constructor throws (RABBITMQ_URL or RABBITMQ_QUEUE unset).
NewRabbitImagePushThrows ==
    /\ pc = "PF_NewRabbit"
    /\ LedgerHasRoom
    /\ CatchUnexpected
    /\ UNCHANGED <<otherVars, lastFlashCount, consecutiveNoChanges, store,
                   flashcastrUsers, flashes, obs>>

\* PublishGroup with Promise.all in place of the per-call try/catch: the
\* first failing call ends the publish loop.
PublishGroupFailFast ==
    /\ pc = "PF_PublishGroup"
    /\ LET group == concurrentBatch(pf.flashesToPublish, pf.i, pf.j,
                                    pf.batchSize, pf.concurrencyLimit)
           next == nextGroup(Len(pf.flashesToPublish), pf.i, pf.j,
                             pf.batchSize, pf.concurrencyLimit)
       IN \E failing \in SUBSET Range(group) :
             /\ failing # {} => LedgerHasRoom
             /\ LET firstFailure ==
                       IF failing = {} THEN Len(group)
                       ELSE CHOOSE k \in 1 .. Len(group) :
                               /\ group[k] \in failing
                               /\ \A m \in 1 .. k - 1 : group[m] \notin failing
                    called == SubSeq(group, 1, firstFailure)
                IN /\ pf' = [pf EXCEPT
                               !.failedPublishes = @ \o SelectIds(called, failing),
                               !.publishCount = @ + Len(SelectIds(called, Ids \ failing)),
                               !.i = next.i, !.j = next.j]
                   /\ obs' = [obs EXCEPT !.pass.publishLog = @ \o
                                [k \in 1 .. Len(called) |->
                                   [flash_id |-> called[k],
                                    ok |-> called[k] \notin failing]]]
                   /\ pc' = IF failing = {} /\ next.i < Len(pf.flashesToPublish)
                            THEN "PF_PublishGroup" ELSE "PF_Finish"
    /\ UNCHANGED <<otherVars, lastFlashCount, consecutiveNoChanges, ledger, store,
                   flashcastrUsers, flashes>>

\* Lines 252-272: one group of publish calls, all settled before the loop
\* goes on; failing are the calls of the flashes in failing.
PublishGroup ==
    /\ pc = "PF_PublishGroup"
    /\ LET group == concurrentBatch(pf.flashesToPublish, pf.i, pf.j,
                                    pf.batchSize, pf.concurrencyLimit)
           next == nextGroup(Len(pf.flashesToPublish), pf.i, pf.j,
                             pf.batchSize, pf.concurrencyLimit)
       IN \E failing \in SUBSET Range(group) :
             /\ failing # {} => LedgerHasRoom
             /\ pf' = [pf EXCEPT
                         !.failedPublishes = @ \o SelectIds(group, failing),
                         !.publishCount = @ + Len(group) - Cardinality(failing),
                         !.i = next.i, !.j = next.j]
             /\ obs' = [obs EXCEPT !.pass.publishLog = @ \o
                          [k \in 1 .. Len(group) |->
                             [flash_id |-> group[k], ok |-> group[k] \notin failing]]]
             /\ pc' = IF next.i < Len(pf.flashesToPublish)
                      THEN "PF_PublishGroup" ELSE "PF_Finish"
    /\ UNCHANGED <<otherVars, lastFlashCount, consecutiveNoChanges, ledger, store,
                   flashcastrUsers, flashes>>

\* Lines 280-286 and 313-316, the ledger file after the publish loop: the
\* failed publishes are appended as one entry, then, in a retry with a
\* publish that succeeded, the file is emptied.
ledgerAfterPublishing(l, failedPublishes, publishCount, context) ==
    LET persisted == IF Len(failedPublishes) > 0
                     THEN PersistFailedFlashes(l, failedPublishes,
                              "rabbitmq-publish-failure", context)
                     ELSE l
    IN IF context = RetryContext /\ publishCount > 0
       THEN ClearFailedFlashes(persisted)
       ELSE persisted

\* FinishPublishing without the test of the context at line 314: the ledger
\* is cleared after any pass with a publish that succeeded.
FinishPublishingClearsAfterAnyPass ==
    /\ pc = "PF_Finish"
    /\ LET persisted == IF Len(pf.failedPublishes) > 0
                        THEN PersistFailedFlashes(ledger, pf.failedPublishes,
                                 "rabbitmq-publish-failure", pf.context)
                        ELSE ledger
       IN ledger' = IF pf.publishCount > 0
                    THEN ClearFailedFlashes(persisted)
                    ELSE persisted
    /\ pf' = [pf EXCEPT !.result = "completed"]
    /\ pc' = "PF_Return"
    /\ UNCHANGED <<otherVars, lastFlashCount, consecutiveNoChanges, store,
                   flashcastrUsers, flashes, obs>>

\* Lines 280-316: the failed publishes are persisted as one entry; after a
\* retry with a publish that succeeded the ledger is cleared.
FinishPublishing ==
    /\ pc = "PF_Finish"
    /\ ledger' = ledgerAfterPublishing(ledger, pf.failedPublishes,
                                       pf.publishCount, pf.context)
    /\ pf' = [pf EXCEPT !.result = "completed"]
    /\ pc' = "PF_Return"
    /\ UNCHANGED <<otherVars, lastFlashCount, consecutiveNoChanges, store,
                   flashcastrUsers, flashes, obs>>

\* processFlashes returns to executeTask: after line 56 to the fetch, after
\* line 120 to the end of the run.
ReturnFromProcessFlashes ==
    /\ pc = "PF_Return"
    /\ pc' = IF pf.context = RetryContext THEN "Fetching" ELSE "Processed"
    /\ obs' = [obs EXCEPT !.pass = NoPassObs,
                          !.replay = IF pf.context = RetryContext THEN "done" ELSE @]
    /\ pf' = NoFrame
    /\ UNCHANGED <<otherVars, lastFlashCount, consecutiveNoChanges, ledger, store,
                   flashcastrUsers, flashes>>

(***************************************************************************)
(* The end of a run, and the environment.                                  *)
(***************************************************************************)
EndStates ==
    {"SkippedOffPeak", "SkippedBackoff", "SkippedUnchanged", "Processed", "Aborted"}

\* executeTask has returned or thrown; the next run starts from Idle.
TickEnd ==
    /\ pc \in EndStates
    /\ pc' = "Idle"
    /\ flashes' = NoFlashes
    /\ obs' = NoObs
    /\ UNCHANGED <<otherVars, lastFlashCount, consecutiveNoChanges, ledger, store,
                   flashcastrUsers, pf>>

\* The image consumer (another process) sets the ipfs_cid of a stored row.
\* A run reads ipfs_cid at one place only, getByIds, so an update during a run
\* acts as one before or after it: updates are taken between runs.
ArtifactUpdate ==
    /\ pc = "Idle"
    /\ \E id \in Ids, cid \in Cids :
          /\ store[id] # NoRow
          /\ store[id] # cid
          /\ store' = [store EXCEPT ![id] = cid]
    /\ UNCHANGED <<otherVars, pc, lastFlashCount, consecutiveNoChanges, ledger,
                   flashcastrUsers, flashes, pf, obs>>

\* The process is stopped and started again: the statics and the locals
\* are gone, the ledger file and the table stay.
Restart ==
    /\ <<pc, lastFlashCount, consecutiveNoChanges>> # <<"Idle", NULL, 0>>
    /\ pc' = "Idle"
    /\ lastFlashCount' = NULL
    /\ consecutiveNoChanges' = 0
    /\ flashes' = NoFlashes
    /\ pf' = NoFrame
    /\ obs' = NoObs
    /\ UNCHANGED <<otherVars, ledger, store, flashcastrUsers>>

Next ==
    \/ SkipOffPeak
    \/ StartRun
    \/ RetryNothing
    \/ RetryPreviouslyFailed
    \/ GetFlashesThrows
    \/ GetFlashesEmpty
    \/ BackoffSkip
    \/ NoNewFlashes
    \/ FlashCountChanged
    \/ GetUsers
    \/ GetUsersThrows
    \/ GetFlashesByIds
    \/ GetFlashesByIdsThrows
    \/ WriteMany
    \/ WriteManyThrows
    \/ NewRabbitImagePush
    \/ NewRabbitImagePushThrows
    \/ PublishGroup
    \/ FinishPublishing
    \/ ReturnFromProcessFlashes
    \/ TickEnd
    \/ ArtifactUpdate
    \/ Restart

Spec == Init /\ [][Next]_vars

(***************************************************************************)
(* A second specification, for what eventually happens: runs with a        *)
(* working allow-list and lookup, an image consumer that never sets an     *)
(* ipfs_cid and no restart, under the fairness the scheduling gives.  The  *)
(* cron schedule keeps starting runs; the off-peak draw, the fetch, the    *)
(* store write and the publish calls do not fail for ever.                 *)
(***************************************************************************)
\* Lines 84-105 with consecutiveNoChanges at MaxUnchanged or beyond: the
\* run is skipped whatever the draw, and the model does not count further.
NoNewFlashesBeyondBound ==
    /\ pc = "Fetching"
    /\ consecutiveNoChanges = MaxUnchanged
    /\ \E f \in FeedResponses :
          /\ HasFlashes(f)
          /\ lastFlashCount = f.flash_count
          /\ flashes' = f
          /\ obs' = [obs EXCEPT !.instance = "none", !.fetched = f, !.backoff = "noskip"]
    /\ pc' = "SkippedUnchanged"
    /\ UNCHANGED <<otherVars, lastFlashCount, consecutiveNoChanges, ledger, store,
                   flashcastrUsers, pf>>

FetchSucceeds ==
    BackoffSkip \/ NoNewFlashes \/ NoNewFlashesBeyondBound \/ FlashCountChanged

\* Every publish call of the group succeeds.
PublishGroupSucceeds ==
    PublishGroup /\ pf'.failedPublishes = pf.failedPublishes

LiveNext ==
    \/ SkipOffPeak
    \/ StartRun
    \/ RetryNothing
    \/ RetryPreviouslyFailed
    \/ GetFlashesThrows
    \/ BackoffSkip
    \/ NoNewFlashes
    \/ NoNewFlashesBeyondBound
    \/ FlashCountChanged
    \/ GetUsers
    \/ GetFlashesByIds
    \/ WriteMany
    \/ WriteManyThrows
    \/ NewRabbitImagePush
    \/ NewRabbitImagePushThrows
    \/ PublishGroup
    \/ FinishPublishing
    \/ ReturnFromProcessFlashes
    \/ TickEnd

LiveSpec ==
    /\ Init
    /\ [][LiveNext]_vars
    /\ WF_vars(LiveNext)
    /\ SF_vars(StartRun)
    /\ SF_vars(FetchSucceeds)
    /\ SF_vars(WriteMany)
    /\ SF_vars(PublishGroupSucceeds)

(***************************************************************************)
(* A third specification, for the backoff arithmetic: runs in which        *)
(* nothing fails and no ipfs_cid is set, with consecutiveNoChanges counted *)
(* up to MaxBackoffCounter and the draw of line 93 kept in obs.            *)
(***************************************************************************)
\* Lines 84-105 with the value of Math.random() at line 93 given.
UnchangedFlashCount(draw) ==
    /\ pc = "Fetching"
    /\ consecutiveNoChanges < MaxBackoffCounter
    /\ \E f \in FeedResponses :
          /\ HasFlashes(f)
          /\ lastFlashCount = f.flash_count
          /\ flashes' = f
          /\ LET skip == shouldSkipDueToBackoff(draw, consecutiveNoChanges + 1)
             IN /\ obs' = [obs EXCEPT !.instance = "none", !.fetched = f,
                                      !.draw = draw,
                                      !.backoff = IF skip THEN "skip"
                                                  ELSE "noskip"]
                /\ pc' = IF skip THEN "SkippedBackoff" ELSE "SkippedUnchanged"
    /\ consecutiveNoChanges' = consecutiveNoChanges + 1
    /\ UNCHANGED <<otherVars, lastFlashCount, ledger, store, flashcastrUsers, pf>>

BackoffDraw == \E draw \in Draws : UnchangedFlashCount(draw)

BackoffNext ==
    \/ StartRun
    \/ RetryNothing
    \/ BackoffDraw
    \/ FlashCountChanged
    \/ GetUsers
    \/ GetFlashesByIds
    \/ WriteMany
    \/ NewRabbitImagePush
    \/ PublishGroupSucceeds
    \/ FinishPublishing
    \/ ReturnFromProcessFlashes
    \/ TickEnd

BackoffSpec == Init /\ [][BackoffNext]_vars

(***************************************************************************)
(* A fourth specification, for the off-peak decision: runs in which        *)
(* nothing fails and no ipfs_cid is set, with the hour of the clock and    *)
(* the draw of line 34 kept in obs.                                        *)
(***************************************************************************)
\* Lines 26-44 with the value of getUTCHours() at line 340 and, outside the
\* peak hours, the value of Math.random() at line 34 given.
TaskAt(utcHour, draw) ==
    /\ pc = "Idle"
    /\ LET peak == isPeakFlashTime(utcHour)
       IN /\ pc' = IF ~peak /\ shouldSkip(draw) THEN "SkippedOffPeak"
                   ELSE "RetryingLedger"
          /\ \E inst \in Instances :
                obs' = [obs EXCEPT !.instance = inst, !.utcHour = utcHour,
                                   !.draw = IF peak THEN -1 ELSE draw]
    /\ UNCHANGED <<otherVars, lastFlashCount, consecutiveNoChanges, ledger, store,
                   flashcastrUsers, flashes, pf>>

TaskAtClock == \E utcHour \in Hours, draw \in Draws : TaskAt(utcHour, draw)

ClockNext ==
    \/ TaskAtClock
    \/ RetryNothing
    \/ BackoffSkip
    \/ NoNewFlashes
    \/ NoNewFlashesBeyondBound
    \/ FlashCountChanged
    \/ GetUsers
    \/ GetFlashesByIds
    \/ WriteMany
    \/ NewRabbitImagePush
    \/ PublishGroupSucceeds
    \/ FinishPublishing
    \/ ReturnFromProcessFlashes
    \/ TickEnd

ClockSpec == Init /\ [][ClockNext]_vars

(***************************************************************************)
(* A fifth specification, for the publish loop under every setting: the    *)
(* runs of LiveSpec with RABBITMQ_BATCH_SIZE and RABBITMQ_CONCURRENCY      *)
(* unset or any of the integers 0, 1, 2.  Every call returns or fails:     *)
(* a step that can be taken is taken.                                      *)
(***************************************************************************)
EnvIntegers == {"", "0", "1", "2"}

\* Lines 239-251 with the two settings unset or any integer.
NewRabbitImagePushAnySetting ==
    /\ pc = "PF_NewRabbit"
    /\ \E envBatch \in EnvIntegers, envConc \in EnvIntegers :
          pf' = [pf EXCEPT
                   !.batchSize = ParseIntOr(envBatch, DefaultBatchSize),
                   !.concurrencyLimit = ParseIntOr(envConc, DefaultConcurrency)]
    /\ pc' = "PF_PublishGroup"
    /\ UNCHANGED <<otherVars, lastFlashCount, consecutiveNoChanges, ledger, store,
                   flashcastrUsers, flashes, obs>>

SettingsNext ==
    \/ SkipOffPeak
    \/ StartRun
    \/ RetryNothing
    \/ RetryPreviouslyFailed
    \/ GetFlashesThrows
    \/ GetFlashesEmpty
    \/ BackoffSkip
    \/ NoNewFlashes
    \/ NoNewFlashesBeyondBound
    \/ FlashCountChanged
    \/ GetUsers
    \/ GetFlashesByIds
    \/ WriteMany
    \/ WriteManyThrows
    \/ NewRabbitImagePushAnySetting
    \/ PublishGroup
    \/ FinishPublishing
    \/ ReturnFromProcessFlashes
    \/ TickEnd

SettingsSpec == Init /\ [][SettingsNext]_vars /\ WF_vars(SettingsNext)

(***************************************************************************)
(* FlashSyncCron.executeTask, flash-sync.ts lines 48-191, and a            *)
(* specification of its runs.  FlashcastrFlashesDb, NeynarUsers and        *)
(* PostgresFlashesDb.getSinceByPlayers are not part of the repository      *)
(* snapshot: a call of them returns what its name says or rejects.         *)
(***************************************************************************)
\* PostgresFlashesDb.getSinceByPlayers: the stored flashes of the players
\* that are recent enough, recent being the flashes of the last hour.
GetSinceByPlayers(st, recent, players) ==
    SelectIds(<<1, 2, 3>>,
              { id \in recent : st[id] # NoRow /\ ToLowerCase(Player(id)) \in players })

\* FlashcastrFlashesDb.getByFlashIds, as the ids of the rows found.
GetByFlashIds(table, flashIds) ==
    { id \in Range(flashIds) : table[id] # NoRow }

\* FlashcastrFlashesDb.insertMany, the table afterwards.
InsertMany(table, docs) ==
    [id \in Ids |->
        IF table[id] = NoRow /\ \E k \in 1 .. Len(docs) : docs[k].flash_id = id
        THEN (CHOOSE d \in Range(docs) : d.flash_id = id).cast_hash
        ELSE table[id]]

\* Lines 107-110: the user whose username is the flash's player, up to
\* letter case.
appUser(users, flash) ==
    { u \in users : ToLowerCase(u) = ToLowerCase(Player(flash)) }

\* The loop of lines 106-176 goes on to the next flash or, after the last
\* one, to lines 181-187.
syncAfterFlash(frame, docs) ==
    IF frame.k < Len(frame.newFlashes)
    THEN [frame EXCEPT !.k = @ + 1, !.docs = docs]
    ELSE IF Len(docs) > 0
         THEN [frame EXCEPT !.pc = "InsertMany", !.docs = docs]
         ELSE NoSync

\* Lines 53-104: the users, the recent flashes, the rows already stored and
\* the profiles are read, and there are new flashes.  A run that returns at
\* line 54, 68 or 80, or in which one of these calls rejects, changes
\* nothing.
SyncFetchNewFlashes ==
    /\ sync.pc = "Idle"
    /\ \E recent \in SUBSET Ids, profiles \in SUBSET flashcastrUsers :
          LET usernames == { ToLowerCase(u) : u \in flashcastrUsers }
              found == GetSinceByPlayers(store, recent, usernames)
              alreadyStored == GetByFlashIds(flashcastrFlashes, found)
              newFlashes == SelectIds(found, Ids \ alreadyStored)
          IN /\ Len(newFlashes) > 0
             /\ sync' = [NoSync EXCEPT !.pc = "CastLoop",
                                       !.newFlashes = newFlashes,
                                       !.profiles = profiles, !.k = 1]
    /\ UNCHANGED <<cronVars, flashcastrFlashes, publishCastCalls, castHashes,
                   mqVars, configVars>>

\* Lines 111, 114 and 119-124: the flash has no user or no profile, or its
\* user casts automatically and its ipfs_cid is not populated: continue.
SyncSkipFlash ==
    /\ sync.pc = "CastLoop"
    /\ LET flash == sync.newFlashes[sync.k]
           user == appUser(flashcastrUsers, flash)
       IN \/ user = {}
          \/ user \cap sync.profiles = {}
          \/ /\ user \cap AutoCastUsers # {}
             /\ withoutIpfs(store[flash])
    /\ sync' = syncAfterFlash(sync, sync.docs)
    /\ UNCHANGED <<cronVars, flashcastrFlashes, publishCastCalls, castHashes,
                   mqVars, configVars>>

\* The flash of this turn of the loop gets as far as lines 116-117.
syncReachesCast(flash) ==
    LET user == appUser(flashcastrUsers, flash)
    IN /\ user # {}
       /\ user \cap sync.profiles # {}

\* Lines 117 and 169-175: the user does not cast automatically; the
\* document has no cast_hash.
SyncNoAutoCast ==
    /\ sync.pc = "CastLoop"
    /\ LET flash == sync.newFlashes[sync.k]
       IN /\ syncReachesCast(flash)
          /\ appUser(flashcastrUsers, flash) \cap AutoCastUsers = {}
          /\ sync' = syncAfterFlash(sync,
                        Append(sync.docs, [flash_id |-> flash, cast_hash |-> NULL]))
    /\ UNCHANGED <<cronVars, flashcastrFlashes, publishCastCalls, castHashes,
                   mqVars, configVars>>

\* Lines 126-159 and 169-175: publishCast returns a hash.
SyncPublishCast ==
    /\ sync.pc = "CastLoop"
    /\ LET flash == sync.newFlashes[sync.k]
       IN /\ syncReachesCast(flash)
          /\ appUser(flashcastrUsers, flash) \cap AutoCastUsers # {}
          /\ ~withoutIpfs(store[flash])
          /\ publishCastCalls[flash] < MaxCasts
          /\ publishCastCalls' = [publishCastCalls EXCEPT ![flash] = @ + 1]
          /\ castHashes' = [castHashes EXCEPT ![flash] = @ + 1]
          /\ sync' = syncAfterFlash(sync,
                        Append(sync.docs, [flash_id |-> flash, cast_hash |-> CastHash]))
    /\ UNCHANGED <<cronVars, flashcastrFlashes, mqVars, configVars>>

\* Lines 126-175: publishCast rejects; the error is caught at line 160 and
\* the document has no cast_hash.
SyncPublishCastThrows ==
    /\ sync.pc = "CastLoop"
    /\ LET flash == sync.newFlashes[sync.k]
       IN /\ syncReachesCast(flash)
          /\ appUser(flashcastrUsers, flash) \cap AutoCastUsers # {}
          /\ ~withoutIpfs(store[flash])
          /\ publishCastCalls[flash] < MaxCasts
          /\ publishCastCalls' = [publishCastCalls EXCEPT ![flash] = @ + 1]
          /\ sync' = syncAfterFlash(sync,
                        Append(sync.docs, [flash_id |-> flash, cast_hash |-> NULL]))
    /\ UNCHANGED <<cronVars, flashcastrFlashes, castHashes, mqVars, configVars>>

\* Line 181: the documents of the run are inserted.
SyncInsertMany ==
    /\ sync.pc = "InsertMany"
    /\ flashcastrFlashes' = InsertMany(flashcastrFlashes, sync.docs)
    /\ sync' = NoSync
    /\ UNCHANGED <<cronVars, publishCastCalls, castHashes, mqVars, configVars>>

\* Lines 181 and 188-190: insertMany rejects; the error is caught and
\* logged, and the run ends.
SyncInsertManyThrows ==
    /\ sync.pc = "InsertMany"
    /\ sync' = NoSync
    /\ UNCHANGED <<cronVars, flashcastrFlashes, publishCastCalls, castHashes,
                   mqVars, configVars>>

SyncInit ==
    /\ pc = "Idle"
    /\ lastFlashCount = NULL
    /\ consecutiveNoChanges = 0
    /\ ledger = <<>>
    /\ store \in SyncStores
    /\ flashcastrUsers \in SyncUsers
    /\ flashes = NoFlashes
    /\ pf = NoFrame
    /\ obs = NoObs
    /\ SyncIdle
    /\ RabbitIdle
    /\ ConfigUnloaded

SyncNext ==
    \/ SyncFetchNewFlashes
    \/ SyncSkipFlash
    \/ SyncNoAutoCast
    \/ SyncPublishCast
    \/ SyncPublishCastThrows
    \/ SyncInsertMany
    \/ SyncInsertManyThrows

SyncSpec == SyncInit /\ [][SyncNext]_vars

(***************************************************************************)
(* RabbitMQBase.publishToQueue and withChannel, rabbitmq/index.ts lines    *)
(* 56-103, one step per await, and a specification of their calls.  A      *)
(* call of the amqplib connection or channel resolves or rejects.          *)
(***************************************************************************)
\* The try block of lines 61-64 has settled: the finally block goes to the
\* first close it has to await, or withChannel settles as the try block did.
wcFinally(frame, settled) ==
    LET f == [frame EXCEPT !.settled = settled]
    IN IF f.channel # "undefined" THEN [f EXCEPT !.pc = "ClosingChannel"]
       ELSE IF f.connection # "undefined"
            THEN [f EXCEPT !.pc = "ClosingConnection"]
            ELSE [f EXCEPT !.pc = "Returned", !.outcome = settled]

\* Lines 66-70 are done: what is left of the finally block.
wcAfterChannelClose(frame) ==
    IF frame.connection # "undefined"
    THEN [frame EXCEPT !.pc = "ClosingConnection"]
    ELSE [frame EXCEPT !.pc = "Returned", !.outcome = frame.settled]

\* Lines 119-121, 83 and 59-62: publish(payload) calls withChannel, which
\* awaits connect.
PublishToQueue ==
    /\ wc.pc = "Idle"
    /\ messageCounter.published + messageCounter.failed < MaxMessages
    /\ \E payload \in Ids : wc' = [NoCall EXCEPT !.pc = "Connecting",
                                                !.payload = payload]
    /\ UNCHANGED <<cronVars, syncVars, messageCounter, configVars>>

\* Lines 62-63: the connection is open; createChannel is awaited.
Connect ==
    /\ wc.pc = "Connecting"
    /\ wc' = [wc EXCEPT !.connection = "open", !.pc = "CreatingChannel"]
    /\ UNCHANGED <<cronVars, syncVars, messageCounter, configVars>>

\* Line 62: connect rejects; nothing was opened.
ConnectRejects ==
    /\ wc.pc = "Connecting"
    /\ wc' = wcFinally(wc, [kind |-> "error", of |-> "connect"])
    /\ UNCHANGED <<cronVars, syncVars, messageCounter, configVars>>

\* Lines 63-64 and 84: the channel is open; the callback awaits assertQueue.
CreateChannel ==
    /\ wc.pc = "CreatingChannel"
    /\ wc' = [wc EXCEPT !.channel = "open", !.pc = "AssertingQueue"]
    /\ UNCHANGED <<cronVars, syncVars, messageCounter, configVars>>

\* Line 63: createChannel rejects.
CreateChannelRejects ==
    /\ wc.pc = "CreatingChannel"
    /\ wc' = wcFinally(wc, [kind |-> "error", of |-> "createChannel"])
    /\ UNCHANGED <<cronVars, syncVars, messageCounter, configVars>>

\* Line 84: assertQueue rejects.
AssertQueueRejects ==
    /\ wc.pc = "AssertingQueue"
    /\ wc' = wcFinally(wc, [kind |-> "error", of |-> "assertQueue"])
    /\ UNCHANGED <<cronVars, syncVars, messageCounter, configVars>>

\* Lines 85-101: sendToQueue returns true.
SendToQueue ==
    /\ wc.pc = "AssertingQueue"
    /\ messageCounter' = [messageCounter EXCEPT !.published = @ + 1]
    /\ wc' = wcFinally(wc, [kind |-> "result", of |-> "queued"])
    /\ UNCHANGED <<cronVars, syncVars, configVars>>

\* Lines 85-95: sendToQueue returns false.
SendToQueueNotSent ==
    /\ wc.pc = "AssertingQueue"
    /\ messageCounter' = [messageCounter EXCEPT !.failed = @ + 1]
    /\ wc' = wcFinally(wc, [kind |-> "error", of |-> "sendToQueue"])
    /\ UNCHANGED <<cronVars, syncVars, configVars>>

\* Line 85: sendToQueue throws, as it does on a channel that has closed;
\* no counter is incremented.
SendToQueueThrows ==
    /\ wc.pc = "AssertingQueue"
    /\ wc' = wcFinally(wc, [kind |-> "error", of |-> "sendToQueue threw"])
    /\ UNCHANGED <<cronVars, syncVars, messageCounter, configVars>>

\* Lines 66-68: channel.close() resolves.
CloseChannel ==
    /\ wc.pc = "ClosingChannel"
    /\ wc' = wcAfterChannelClose(
                [wc EXCEPT !.channel = "closed",
                           !.closeCalls = Append(@, "channel")])
    /\ UNCHANGED <<cronVars, syncVars, messageCounter, configVars>>

\* CloseChannelRaises without the try and catch of lines 67-69: the error
\* leaves the finally block.
CloseChannelRaisesUncaught ==
    /\ wc.pc = "ClosingChannel"
    /\ wc' = [wc EXCEPT !.channel = "close raised",
                        !.closeCalls = Append(@, "channel"),
                        !.pc = "Returned",
                        !.outcome = [kind |-> "error", of |-> "channel.close"]]
    /\ UNCHANGED <<cronVars, syncVars, messageCounter, configVars>>

\* Lines 66-70: channel.close() rejects; the error is dropped.
CloseChannelRaises ==
    /\ wc.pc = "ClosingChannel"
    /\ wc' = wcAfterChannelClose(
                [wc EXCEPT !.channel = "close raised",
                           !.closeCalls = Append(@, "channel")])
    /\ UNCHANGED <<cronVars, syncVars, messageCounter, configVars>>

\* Lines 71-73: connection.close() resolves; withChannel settles as the try
\* block did.
CloseConnection ==
    /\ wc.pc = "ClosingConnection"
    /\ wc' = [wc EXCEPT !.connection = "closed",
                        !.closeCalls = Append(@, "connection"),
                        !.pc = "Returned", !.outcome = wc.settled]
    /\ UNCHANGED <<cronVars, syncVars, messageCounter, configVars>>

\* Lines 71-75: connection.close() rejects; the error is dropped.
CloseConnectionRaises ==
    /\ wc.pc = "ClosingConnection"
    /\ wc' = [wc EXCEPT !.connection = "close raised",
                        !.closeCalls = Append(@, "connection"),
                        !.pc = "Returned", !.outcome = wc.settled]
    /\ UNCHANGED <<cronVars, syncVars, messageCounter, configVars>>

\* The caller has got the result or the error; the locals are gone.
WithChannelSettled ==
    /\ wc.pc = "Returned"
    /\ wc' = NoCall
    /\ UNCHANGED <<cronVars, syncVars, messageCounter, configVars>>

RabbitNext ==
    \/ PublishToQueue
    \/ Connect
    \/ ConnectRejects
    \/ CreateChannel
    \/ CreateChannelRejects
    \/ AssertQueueRejects
    \/ SendToQueue
    \/ SendToQueueNotSent
    \/ SendToQueueThrows
    \/ CloseChannel
    \/ CloseChannelRaises
    \/ CloseConnection
    \/ CloseConnectionRaises
    \/ WithChannelSettled

RabbitSpec == Init /\ [][RabbitNext]_vars

(***************************************************************************)
(* ConfigManager, config/index.ts lines 71-326, and a specification of     *)
(* its calls.  An AppConfig object holds its scalar fields and references  *)
(* to its nested objects: objects[n] are the nested objects the n-th load  *)
(* created, and an AppConfig object names them by n.                       *)
(***************************************************************************)
\* Lines 315-326, on a string that parses.
redactUrl(url) ==
    IF url.username # "" \/ url.password # ""
    THEN [url EXCEPT !.username = "***", !.password = "***"]
    ELSE url

Redacted == "***REDACTED***"

\* Lines 99-153, the nested objects with a sensitive field.
loadedObjects(env) ==
    [database |-> [url |-> env.DATABASE_URL],
     rabbitmq |-> [url |-> env.RABBITMQ_URL],
     security |-> [signerEncryptionKey |-> env.SIGNER_ENCRYPTION_KEY]]

\* Lines 95-159, loadConfig: a new AppConfig object and its nested objects.
loadConfig(env, objs) ==
    [config |-> [nested |-> Len(objs) + 1, env |-> env.NODE_ENV],
     objects |-> Append(objs, loadedObjects(env))]

\* Lines 301-310, toJSON on the loaded object: the spread copies the
\* fields of the AppConfig object, the references to the nested objects
\* among them, and the assignments write into the nested objects.
toJSON(cfg, objs) ==
    [json |-> cfg,
     objects |-> [objs EXCEPT
        ![cfg.nested] =
            [database |-> [url |-> redactUrl(@.database.url)],
             rabbitmq |-> [url |-> redactUrl(@.rabbitmq.url)],
             security |-> [signerEncryptionKey |-> Redacted]]]]

\* Lines 77-82: configManager.config is read for the first time.
ConfigGet ==
    /\ config = NoConfig
    /\ LET loaded == loadConfig(processEnv, objects)
       IN /\ config' = loaded.config
          /\ objects' = loaded.objects
    /\ UNCHANGED <<cronVars, syncVars, mqVars, processEnv, json>>

\* Lines 87-90: reload().
ConfigReload ==
    /\ Len(objects) < MaxLoads
    /\ LET loaded == loadConfig(processEnv, objects)
       IN /\ config' = loaded.config
          /\ objects' = loaded.objects
    /\ UNCHANGED <<cronVars, syncVars, mqVars, processEnv, json>>

\* Lines 301-310: toJSON() is called; the getter loads the configuration
\* when it is not loaded yet.
ConfigToJSON ==
    /\ config # NoConfig \/ Len(objects) < MaxLoads
    /\ LET loaded == IF config = NoConfig THEN loadConfig(processEnv, objects)
                     ELSE [config |-> config, objects |-> objects]
           returned == toJSON(loaded.config, loaded.objects)
       IN /\ config' = loaded.config
          /\ objects' = returned.objects
          /\ json' = returned.json
    /\ UNCHANGED <<cronVars, syncVars, mqVars, processEnv>>

ConfigInit ==
    /\ pc = "Idle"
    /\ lastFlashCount = NULL
    /\ consecutiveNoChanges = 0
    /\ ledger = <<>>
    /\ store = [id \in Ids |-> NoRow]
    /\ flashcastrUsers = {}
    /\ flashes = NoFlashes
    /\ pf = NoFrame
    /\ obs = NoObs
    /\ SyncIdle
    /\ RabbitIdle
    /\ processEnv \in ProcessEnvs
    /\ config = NoConfig
    /\ objects = <<>>
    /\ json = NoConfig

ConfigNext ==
    \/ ConfigGet
    \/ ConfigReload
    \/ ConfigToJSON

ConfigSpec == ConfigInit /\ [][ConfigNext]_vars

(***************************************************************************)
(* The claims.                                                             *)
(***************************************************************************)
\* An ipfs_cid that is null, empty or blank.
EmptyCids == {NULL, "", " "}

FetchedIds(f) == Range(f.with_paris) \cup Range(f.without_paris)

SkipStates == {"SkippedOffPeak", "SkippedBackoff", "SkippedUnchanged"}

\* The publish calls of the running pass, as the flash ids in call order.
PublishedIds == [k \in 1 .. Len(obs.pass.publishLog) |-> obs.pass.publishLog[k].flash_id]

FailedIds ==
    { obs.pass.publishLog[k].flash_id :
        k \in { m \in 1 .. Len(obs.pass.publishLog) : ~obs.pass.publishLog[m].ok } }

C2_StoreFailureLedgersBatch ==
    (pc = "PF_Return" /\ pf.context = NewContext
        /\ pf.result = "database-write-failure") =>
       /\ Len(obs.pass.writeArg) >= 1
       /\ Range(obs.fetched.without_paris) \subseteq Range(obs.pass.writeArg)
       /\ ledger = Append(obs.pass.ledgerAtStart,
                          [flashes |-> obs.pass.writeArg,
                           reason |-> [kind |-> "database-write-failure",
                                       context |-> NewContext]])
       /\ obs.pass.publishLog = <<>>

C2_Witness ==
    /\ pc = "PF_Return" /\ pf.context = NewContext
    /\ pf.result = "database-write-failure"
    /\ Len(obs.pass.writeArg) = 2

\* C3: while the publish stage runs the ledger is not written; when it has
\* ended every flash of the eligible list has had its publish call, once and
\* in list order, whichever calls failed, and the ledger has got exactly one
\* new entry holding exactly the flashes whose call failed, or no entry when
\* none failed.
C3_PublishFailuresIsolated ==
    /\ pc \in {"PF_PublishGroup", "PF_Finish"} => ledger = obs.pass.ledgerAtStart
    /\ (pc = "PF_Return" /\ pf.result = "completed") =>
          /\ PublishedIds = pf.flashesToPublish
          /\ pf.publishCount = Len(obs.pass.publishLog) - Cardinality(FailedIds)
          /\ IF FailedIds = {}
             THEN ledger = obs.pass.ledgerAtStart
             ELSE /\ Len(ledger) = Len(obs.pass.ledgerAtStart) + 1
                  /\ SubSeq(ledger, 1, Len(ledger) - 1) = obs.pass.ledgerAtStart
                  /\ Range(ledger[Len(ledger)].flashes) = FailedIds
                  /\ Len(ledger[Len(ledger)].flashes) = Cardinality(FailedIds)
                  /\ ledger[Len(ledger)].reason.kind = "rabbitmq-publish-failure"

C3_Witness ==
    /\ pc = "PF_Return" /\ pf.result = "completed"
    /\ pf.concurrencyLimit = DefaultConcurrency
    /\ Len(obs.pass.publishLog) = 2
    /\ ~obs.pass.publishLog[1].ok
    /\ obs.pass.publishLog[2].ok

\* The flashes handed to writeMany that the claim C4 makes eligible: those
\* with no row before the write, and those with a row whose ipfs_cid is
\* null, empty or blank.
C4_Eligible ==
    { id \in Range(obs.pass.writeArg) :
        \/ obs.pass.storeAtWrite[id] = NoRow
        \/ obs.pass.storeAtWrite[id] \in EmptyCids }

\* C4: in a pass whose store write succeeded, the flashes chosen for
\* publishing are exactly the eligible ones, only those get a publish call,
\* and when the publish stage has ended each of them has got one.
C4_PublishEligibility ==
    (obs.pass.written /\ pf.result # "database-write-failure") =>
       /\ Range(pf.flashesToPublish) = C4_Eligible
       /\ Range(PublishedIds) \subseteq C4_Eligible
       /\ pf.result = "completed" => Range(PublishedIds) = C4_Eligible

C4_Witness ==
    /\ pc = "PF_Return" /\ pf.result = "completed"
    /\ obs.pass.writeArg = <<3, 1>>
    /\ obs.pass.storeAtWrite[3] = "QmA"
    /\ obs.pass.storeAtWrite[1] = " "
    /\ PublishedIds = <<1>>

\* C5, as stated: on a run whose fetched flash count is the last one seen,
\* the run is skipped only when the backoff draw selects the skip; when it
\* does not, the run goes on to process the fetched flashes.
C5_UnchangedProcessedUnlessDrawSkips ==
    /\ pc \in {"SkippedBackoff", "SkippedUnchanged"} => obs.backoff = "skip"
    /\ obs.backoff = "noskip" =>
          pf.context = NewContext \/ pc = "Processed"

\* The step is the fetch of a response that passes the check of lines 68-75.
C6_Fetched == obs.fetched = NoFlashes /\ obs'.fetched # NoFlashes

\* C6: the fetch of a flash count equal to lastFlashCount adds exactly 1 to
\* consecutiveNoChanges and leaves lastFlashCount; the fetch of another
\* flash count sets the counter to 0 and lastFlashCount to the new count
\* with processFlashes not yet started on the fetched flashes; no other step
\* of a run changes either (a restart of the process is not a step of a run).
C6_CounterAndFingerprintSteps ==
    [][ \/ Restart
        \/ /\ C6_Fetched
           /\ obs'.fetched.flash_count = lastFlashCount
           /\ consecutiveNoChanges' = consecutiveNoChanges + 1
           /\ lastFlashCount' = lastFlashCount
        \/ /\ C6_Fetched
           /\ obs'.fetched.flash_count # lastFlashCount
           /\ consecutiveNoChanges' = 0
           /\ lastFlashCount' = obs'.fetched.flash_count
           /\ pc' = "PF_GetUsers" /\ pf'.context = NewContext
           /\ ~obs'.pass.lookedUp /\ ~obs'.pass.written
           /\ obs'.pass.publishLog = <<>>
           /\ store' = store /\ ledger' = ledger
        \/ /\ ~C6_Fetched
           /\ UNCHANGED <<lastFlashCount, consecutiveNoChanges>>
      ]_vars

C6_Witness ==
    /\ pc = "SkippedBackoff"
    /\ consecutiveNoChanges = MaxUnchanged
    /\ lastFlashCount = obs.fetched.flash_count

\* C7, as stated: when the processing of a run's fresh flashes has failed,
\* lastFlashCount still holds the value from before the run, which is not
\* the flash count the run fetched.
C7_FingerprintKeptOnFailure ==
    (pf.context = NewContext
        /\ pf.result \in {"database-write-failure", "unexpected-error"}) =>
       lastFlashCount # obs.fetched.flash_count

\* C7, amended: the statics are written before the processing starts; from
\* the call of processFlashes on the fresh flashes to the end of the run,
\* whether the processing completed or failed, lastFlashCount holds the
\* flash count the run fetched and consecutiveNoChanges is 0.
C7_FingerprintWrittenBeforeProcessing ==
    (pf.context = NewContext \/ pc = "Processed") =>
       /\ lastFlashCount = obs.fetched.flash_count
       /\ consecutiveNoChanges = 0

C7_Witness ==
    /\ pc = "Processed"
    /\ lastFlashCount = obs.fetched.flash_count
    /\ Len(ledger) = 1
    /\ ledger[1].reason = [kind |-> "database-write-failure", context |-> NewContext]
    /\ store = [id \in Ids |-> NoRow]

\* C8, as stated, for the runs in which nothing fails: a fetched flash that
\* is stored with an empty ipfs_cid is among the flashes chosen for
\* publishing in that run, whether or not the flash count changed.
C8_SelfHealingPublish ==
    \A id \in Ids :
       /\ (pc \in {"SkippedBackoff", "SkippedUnchanged"}
             /\ id \in FetchedIds(obs.fetched)) =>
             store[id] \notin EmptyCids
       /\ (pc = "PF_Return" /\ pf.context = NewContext
             /\ pf.result \in {"completed", "nothing-to-publish"}
             /\ id \in FetchedIds(obs.fetched)
             /\ obs.pass.storeAtWrite[id] \in EmptyCids) =>
             id \in Range(pf.flashesToPublish)

\* Flash 3 is part of every response that passes the check of lines 68-75.
C9_Delivered ==
    \E k \in 1 .. Len(obs.pass.publishLog) :
       obs.pass.publishLog[k] = [flash_id |-> 3, ok |-> TRUE]

\* C9, as stated: a flash that every fetch returns and that is at some time
\* in the store with an empty ipfs_cid is at some time handed to the
\* publisher with success, whatever publish attempt was lost before.
C9_EventualDelivery ==
    <>(store[3] \in EmptyCids) => <>C9_Delivered

\* C10, as stated: once a retry pass has called writeMany, every flash the
\* ledger returned has been looked up by id and handed to writeMany, and
\* when the pass has completed each eligible one has had a publish call.
C10_RetrySamePipeline ==
    (pf.context = RetryContext /\ obs.pass.written) =>
       /\ Range(obs.pass.input) \subseteq Range(obs.pass.lookupArg)
       /\ Range(obs.pass.input) \subseteq Range(obs.pass.writeArg)
       /\ pf.result = "completed" =>
             { id \in Range(obs.pass.input) :
                  obs.pass.storeAtWrite[id] \in EmptyCids \cup {NoRow} }
                \subseteq Range(PublishedIds)

\* C11: a step that removes an entry from the ledger is the end of the
\* publish stage of a retry pass with at least one publish call that
\* succeeded, and it empties the ledger; no step of a fresh pass, of a retry
\* pass without a successful publish or of a pass ended by a store-write
\* failure, and no restart, removes an entry.
C11_ClearedOnlyAfterRetryPublish ==
    [][ ~(\E k \in 1 .. Len(ledger) :
             k > Len(ledger') \/ ledger'[k] # ledger[k])
        \/ /\ pc = "PF_Finish"
           /\ pf.context = RetryContext
           /\ pf.publishCount > 0
           /\ ledger' = <<>>
      ]_vars

\* A fresh pass with a publish that succeeded has ended and the entry the
\* ledger held when it started is still there.
C11_Witness ==
    /\ pc = "PF_Return" /\ pf.context = NewContext
    /\ pf.result = "completed" /\ pf.publishCount > 0
    /\ Len(obs.pass.ledgerAtStart) > 0
    /\ ledger = obs.pass.ledgerAtStart

\* C12: a step of the fetch that does not yield a response with both
\* subsets non-empty ends the run with an error and changes neither the
\* ledger, the store, lastFlashCount nor consecutiveNoChanges; a run ends
\* with an error at the fetch only, with no call of processFlashes on fresh
\* flashes started and nothing published for them.
C12_FetchFailureAborts ==
    [][ \/ Restart
        \/ /\ (pc = "Fetching" /\ ~HasFlashes(flashes')) =>
                 /\ pc' = "Aborted"
                 /\ UNCHANGED <<ledger, store, lastFlashCount,
                                consecutiveNoChanges>>
           /\ pc' = "Aborted" =>
                 /\ pc = "Fetching"
                 /\ pf' = NoFrame
                 /\ obs'.fetched = NoFlashes
                 /\ obs'.pass = NoPassObs
      ]_vars

\* The rejected response had a new flash count and an empty subset; the
\* ledger held an entry.
C12_Witness ==
    /\ pc = "Aborted"
    /\ flashes.with_paris = <<1, 2>> /\ flashes.without_paris = <<>>
    /\ lastFlashCount = "100" /\ flashes.flash_count = "101"
    /\ Len(ledger) = 1

\* The candidates of the fresh batch of this run: every without_paris flash
\* and the with_paris flashes of a flashcastr user.
C13_Candidates ==
    Range(obs.fetched.without_paris) \cup
    { id \in Range(obs.fetched.with_paris) :
        \E u \in flashcastrUsers : ToLowerCase(Player(id)) = ToLowerCase(u) }

\* C13, as stated: when a fresh pass has ended in the catch of lines 317-328
\* (getMany, getByIds or the publisher's constructor raised), the ledger has
\* got one new entry and it holds every candidate of the batch, so every
\* candidate has a row in the store or is in the ledger.
C13_UnexpectedErrorLedgersBatch ==
    (pc = "PF_Return" /\ pf.context = NewContext
        /\ pf.result = "unexpected-error") =>
       /\ Len(ledger) = Len(obs.pass.ledgerAtStart) + 1
       /\ C13_Candidates \subseteq Range(ledger[Len(ledger)].flashes)
       /\ \A id \in C13_Candidates :
             store[id] # NoRow \/ id \in Range(RetryFailedFlashes(ledger))

\* The publish calls in flight: at the await of line 258 the calls of the
\* current group have been started by concurrentBatch.map and none has been
\* awaited; at every other await of a run no publish call is pending.
C15_InFlight ==
    IF pc = "PF_PublishGroup"
    THEN concurrentBatch(pf.flashesToPublish, pf.i, pf.j, pf.batchSize,
                         pf.concurrencyLimit)
    ELSE <<>>

\* C15: at most concurrencyLimit publish calls are in flight, and while a
\* group is in flight every call of the earlier groups and batches has
\* settled: the settled calls followed by the calls in flight are the
\* first flashes of the list to publish, in order, none of them twice.
C15_BoundedConcurrency ==
    /\ Len(C15_InFlight) <= pf.concurrencyLimit
    /\ pc = "PF_PublishGroup" =>
          /\ Len(obs.pass.publishLog) + Len(C15_InFlight)
                <= Len(pf.flashesToPublish)
          /\ PublishedIds \o C15_InFlight =
                SubSeq(pf.flashesToPublish, 1,
                       Len(obs.pass.publishLog) + Len(C15_InFlight))

\* The second group of a batch of two is in flight alone, the first call
\* having settled.
C15_Witness ==
    /\ pc = "PF_PublishGroup"
    /\ pf.batchSize = DefaultBatchSize /\ pf.concurrencyLimit = 1
    /\ Len(pf.flashesToPublish) = 2
    /\ Len(obs.pass.publishLog) = 1
    /\ Len(C15_InFlight) = 1

\* The scheduler state an instance reads and writes: lastFlashCount and
\* consecutiveNoChanges are static fields (lines 19-20), and task() runs the
\* static executeTask (lines 26-30), so every instance has the same two.
lastFlashCountOf(inst) == lastFlashCount
consecutiveNoChangesOf(inst) == consecutiveNoChanges

\* C16, as stated: a step of a tick run on one instance leaves the
\* lastFlashCount and consecutiveNoChanges of every other instance as they
\* were (a restart of the process is not a step of a tick).
C16_PerInstanceState ==
    [][ \/ Restart
        \/ \A a, b \in Instances :
              (obs.instance = a /\ b # a) =>
                 /\ lastFlashCountOf(b)' = lastFlashCountOf(b)
                 /\ consecutiveNoChangesOf(b)' = consecutiveNoChangesOf(b)
      ]_vars

\* C17: in a fresh pass, once the allow-list has been read, the flashes to
\* process are every without_paris flash followed by the with_paris flashes
\* whose player is a flashcastr username up to letter case, each once; with no
\* flashcastr user they are the without_paris flashes alone; and these are
\* the flashes looked up and handed to writeMany.
C17_AllowListFilter ==
    (pf.context = NewContext /\ (pc = "PF_GetByIds" \/ obs.pass.lookedUp)) =>
       /\ Range(pf.flashesToProcess) = C13_Candidates
       /\ Len(pf.flashesToProcess) = Cardinality(C13_Candidates)
       /\ SubSeq(pf.flashesToProcess, 1, Len(obs.fetched.without_paris))
             = obs.fetched.without_paris
       /\ flashcastrUsers = {} => pf.flashesToProcess = obs.fetched.without_paris
       /\ obs.pass.lookedUp => obs.pass.lookupArg = pf.flashesToProcess
       /\ obs.pass.written => obs.pass.writeArg = pf.flashesToProcess

\* The user ALICE lets the flash of player Alice through and not Bob's.
C17_Witness ==
    /\ pc = "PF_Return" /\ pf.context = NewContext /\ pf.result = "completed"
    /\ flashcastrUsers = {"ALICE"}
    /\ obs.fetched.with_paris = <<1, 2>>
    /\ obs.pass.writeArg = <<3, 1>>

\* The draws, of the ten, for which a run with counter n takes the backoff
\* skip of lines 95-100.
C18_SkipTenths(n) ==
    Cardinality({ draw \in Draws : shouldSkipDueToBackoff(draw, n) })

C19_FirstPassEnded ==
    /\ pc = "PF_Return" /\ pf.context = NewContext
    /\ pf.result \in {"completed", "nothing-to-publish"}
    /\ obs.pass.storeAtWrite = [id \in Ids |-> NoRow]
    /\ obs.pass.ledgerAtStart = <<>>
    /\ FailedIds = {}

\* C19: with lastFlashCount unset the fetch of a response with flashes is
\* followed by processFlashes on them, never by a skip; while the store and
\* the ledger are both empty no run has been skipped as unchanged; and when
\* the first pass has ended without a failure every without_paris flash and
\* every with_paris flash of a flashcastr user has a row in the store and
\* has had its publish call, once and with success, and the ledger is empty.
C19_FirstRun ==
    /\ [][ (lastFlashCount = NULL /\ C6_Fetched) =>
              /\ pc' = "PF_GetUsers" /\ pf'.context = NewContext
              /\ pf'.flattened = obs'.fetched.with_paris
                                    \o obs'.fetched.without_paris ]_vars
    /\ []((store = [id \in Ids |-> NoRow] /\ ledger = <<>>) =>
             pc \notin {"SkippedBackoff", "SkippedUnchanged"})
    /\ [](C19_FirstPassEnded =>
             /\ pf.result = "completed"
             /\ Range(obs.pass.writeArg) = C13_Candidates
             /\ \A id \in C13_Candidates : store[id] # NoRow
             /\ Range(PublishedIds) = C13_Candidates
             /\ Len(PublishedIds) = Cardinality(C13_Candidates)
             /\ pf.publishCount = Cardinality(C13_Candidates)
             /\ ledger = <<>>)

\* The first run of the scenario: one with_paris flash of a flashcastr
\* user and one without_paris flash, both written and published.
C19_Witness ==
    /\ C19_FirstPassEnded
    /\ flashcastrUsers = {"ALICE"}
    /\ PublishedIds = <<3, 1>>
    /\ store[1] = NULL /\ store[3] = NULL /\ store[2] = NoRow
    /\ lastFlashCount = "100"

\* The batches persistFailedFlashes is given in the checks of C20.
C20_Batches == {<<>>, <<3>>, <<3, 1>>, <<1, 2, 3>>}

C21_InWindow(utcHour) ==
    (utcHour + 1) % 24 >= 6 /\ (utcHour + 1) % 24 < 23

\* C21: a run is in the window exactly when (UTC hour + 1) mod 24 is at
\* least 6 and less than 23, that is from 05 to 21 UTC; a run started inside
\* the window goes on to the ledger; a run skipped by the off-peak rule was
\* started outside the window on a draw below one half, has not read the
\* ledger, fetched, written or published, and from its start to its end
\* lastFlashCount, consecutiveNoChanges, the store and the ledger stay as
\* they were.
C21_OffPeakSkip ==
    /\ [](\A utcHour \in Hours :
             /\ isPeakFlashTime(utcHour) <=> C21_InWindow(utcHour)
             /\ isPeakFlashTime(utcHour) <=> utcHour \in 5 .. 21)
    /\ [](pc = "SkippedOffPeak" =>
             /\ ~C21_InWindow(obs.utcHour)
             /\ obs.draw \in 0 .. 4
             /\ ~obs.drained /\ obs.replay = "none"
             /\ obs.fetched = NoFlashes /\ flashes = NoFlashes
             /\ obs.pass = NoPassObs /\ pf = NoFrame)
    /\ [][ /\ (pc = "Idle" /\ pc' # "Idle" /\ C21_InWindow(obs'.utcHour)) =>
                pc' = "RetryingLedger"
           /\ (pc' = "SkippedOffPeak" \/ pc = "SkippedOffPeak") =>
                UNCHANGED <<lastFlashCount, consecutiveNoChanges, store,
                            ledger>>
           /\ pc = "SkippedOffPeak" => pc' = "Idle"
         ]_vars

\* A run at 22 UTC, 23 by the offset of one hour, is skipped after an
\* earlier run has stored and published flashes.
C21_Witness ==
    /\ pc = "SkippedOffPeak"
    /\ obs.utcHour = 22 /\ obs.draw = 4
    /\ lastFlashCount = "100"
    /\ store[3] = NULL

\* C22, as stated: every run that has started comes to its end, whatever
\* the two settings of the publish loop are.
C22_EveryTickTerminates ==
    (pc # "Idle") ~> (pc = "Idle")

\* C23: every flash whose publish call is in flight or has settled has a
\* row in the store; the publish stage is entered only after writeMany was
\* called and returned, with a row for every flash chosen for publishing;
\* and a pass in which a publish call was made has recorded no failure of
\* the store write.
C23_StoreBeforePublish ==
    /\ \A id \in Range(C15_InFlight) \cup Range(PublishedIds) :
          store[id] # NoRow
    /\ pc \in {"PF_NewRabbit", "PF_PublishGroup", "PF_Finish"} =>
          /\ obs.pass.written
          /\ store = WriteManyStore(obs.pass.storeAtWrite, obs.pass.writeArg)
          /\ \A id \in Range(pf.flashesToPublish) : store[id] # NoRow
    /\ obs.pass.publishLog # <<>> =>
          /\ obs.pass.written
          /\ pf.result # "database-write-failure"
          /\ \A k \in Len(obs.pass.ledgerAtStart) + 1 .. Len(ledger) :
                ledger[k].reason.kind # "database-write-failure"
    /\ pf.result = "database-write-failure" =>
          obs.pass.publishLog = <<>> /\ pc = "PF_Return"

\* The call for flash 1 is in flight after the call for flash 3 has
\* settled, both flashes inserted by the store write of this pass.
C23_Witness ==
    /\ pc = "PF_PublishGroup"
    /\ obs.pass.storeAtWrite[3] = NoRow /\ store[3] = NULL
    /\ obs.pass.storeAtWrite[1] = NoRow /\ store[1] = NULL
    /\ C15_InFlight = <<1>>
    /\ PublishedIds = <<3>>

\* The outcomes of the publish loop of a retry pass C24 is about: the
\* flashes whose call failed, and the number of calls that succeeded.
C24_FailedPublishes == {<<1>>, <<3, 1>>}
C24_PublishCounts == {1, 2}

C25_LedgerDrains ==
    <>[][Len(ledger') <= Len(ledger)]_vars =>
       <>[](RetryFailedFlashes(ledger) = <<>>)

\* The publish calls of the running pass that succeeded.
C26_Succeeded ==
    { k \in 1 .. Len(obs.pass.publishLog) : obs.pass.publishLog[k].ok }

\* C26: with a positive batch size and a positive concurrency limit, while
\* the publish loop runs the calls made are those of the first flashes of
\* the list to publish, in list order and one each, the loop counters count
\* them, and the next group is not empty: it is the next flashes of the
\* list, as many as the limit and the batch allow; when the loop has ended
\* every flash of the list has had one call, the failed list holds the flashes
\* whose call failed, in list order, and publishCount plus the length of the
\* failed list is the length of the list.
C26_OnePublishCallEach ==
    (pf.batchSize > 0 /\ pf.concurrencyLimit > 0) =>
       /\ pc = "PF_PublishGroup" =>
             /\ Len(obs.pass.publishLog) = pf.i + pf.j
             /\ pf.i + pf.j < Len(pf.flashesToPublish)
             /\ PublishedIds = SubSeq(pf.flashesToPublish, 1, pf.i + pf.j)
             /\ Len(C15_InFlight) =
                   Min(pf.concurrencyLimit,
                       Min(pf.batchSize - pf.j,
                           Len(pf.flashesToPublish) - (pf.i + pf.j)))
             /\ C15_InFlight =
                   SubSeq(pf.flashesToPublish, pf.i + pf.j + 1,
                          pf.i + pf.j + Len(C15_InFlight))
       /\ pc = "PF_Finish" =>
             /\ PublishedIds = pf.flashesToPublish
             /\ pf.publishCount = Cardinality(C26_Succeeded)
             /\ pf.failedPublishes = SelectIds(pf.flashesToPublish, FailedIds)
             /\ pf.publishCount + Len(pf.failedPublishes)
                   = Len(pf.flashesToPublish)
       /\ pf.publishCount + Len(pf.failedPublishes) = Len(obs.pass.publishLog)

\* Two batches of one flash under a concurrency limit of two: the call for
\* flash 3 succeeded and the call for flash 1 failed.
C26_Witness ==
    /\ pc = "PF_Finish"
    /\ pf.batchSize = 1 /\ pf.concurrencyLimit = 2
    /\ pf.flashesToPublish = <<3, 1>>
    /\ pf.publishCount = 1
    /\ pf.failedPublishes = <<1>>

\* The with_paris flashes of the feed whose player is no flashcastr user,
\* whatever the letter case.
C27_NotAllowed ==
    { id \in {1, 2} :
        \A u \in flashcastrUsers : ToLowerCase(u) # ToLowerCase(Player(id)) }

C28_AtMostOnceCast ==
    [][ \A id \in Ids :
            publishCastCalls'[id] > publishCastCalls[id] => castHashes[id] = 0 ]_vars

\* C29: withChannel releases what it opened on every path.  When it returns
\* or raises, close() has been called once on the channel, if one was
\* created, and then once on the connection, if one was opened, and no
\* resource is left open without a close() call; and what withChannel
\* returns or raises is what the try block returned or raised, also when a
\* close() has raised.
C29_WithChannelReleases ==
    wc.pc = "Returned" =>
        /\ wc.connection # "open"
        /\ wc.channel # "open"
        /\ wc.closeCalls =
              (IF wc.channel # "undefined" THEN <<"channel">> ELSE <<>>)
              \o (IF wc.connection # "undefined" THEN <<"connection">> ELSE <<>>)
        /\ wc.settled.of \notin {"connect"} => wc.connection # "undefined"
        /\ wc.settled.of \notin {"connect", "createChannel"}
              => wc.channel # "undefined"
        /\ wc.outcome = wc.settled
        /\ wc.outcome.kind # "none"

\* sendToQueue has reported failure, channel.close() has raised and the
\* connection was closed: withChannel raises the error of the callback.
C29_Witness ==
    /\ wc.pc = "Returned"
    /\ wc.settled = [kind |-> "error", of |-> "sendToQueue"]
    /\ wc.channel = "close raised"
    /\ wc.connection = "closed"
    /\ messageCounter.failed = 1

\* C30: toJSON leaves the live configuration unchanged.  Whenever the
\* configuration is loaded, after any number of toJSON calls, the object
\* configManager.config returns has the database.url, the rabbitmq.url and
\* the security.signerEncryptionKey that were loaded from the environment.
C30_ToJSONLeavesConfig ==
    config # NoConfig => objects[config.nested] = loadedObjects(processEnv)

====
